---- MODULE Spec2Model ----
(***************************************************************************)
(* EWAH compressed bitmap (package ewah, bitmap.go).                       *)
(*                                                                         *)
(* A Bitmap is the triple (n, w, lastrlw): the number of bits written, the *)
(* word list and the index of the running length word (RLW) that Set       *)
(* extends.  The program works on 64-bit words whose RLW layout is         *)
(* 1 + 32 + 31 bits; here the same layout is kept with narrower fields:    *)
(* a word has WordBits = 1 + KBits + LBits bits, a chunk of the bitmap is  *)
(* WordBits bits, and the 32-bit integers of the wire format are           *)
(* 4 bytes of ByteBits bits.  Every mask, shift and conversion is computed *)
(* as the code computes it, on naturals below 2^WordBits.                  *)
(***************************************************************************)
EXTENDS Integers, Sequences, FiniteSets, TLC

-----------------------------------------------------------------------------
(* Widths (scaled) and bounds *)

\* width of the k field of an RLW (32 in the program)
KBits == 2

\* width of the l field of an RLW (31 in the program)
LBits == 2

\* width of a byte of the wire format (8 in the program)
ByteBits == 1

\* largest position handed to Set
MaxPos == 24

\* stands for math.MaxInt64: above every position handed to Set
MaxInt64 == 1023

\* the number of empty chunks the scenario of TestBitmapSet starts with, also
\* the offset of its first bit in a chunk (5 in the program: 5*64 + 5)
ScenarioRun == 2

\* largest run count and largest literal count of the blocks handed to Get
\* as a decoded bitmap
GetMaxRun == 1

GetMaxLit == 2

\* width of a word, and number of bitmap bits per word (64 in the program)
WordBits == 1 + KBits + LBits

\* math.MaxUint32 as the largest value of the k field
MaxUint32 == 2^KBits - 1

\* the range of the uint32 values that hold an l: one bit wider than the field
LTypeMod == 2^(LBits + 1)

maxUint31 == 2^LBits - 1

allones == 2^WordBits - 1

\* the range of a uint32 on the wire: 4 bytes
WireMod == 2^(4 * ByteBits)

-----------------------------------------------------------------------------
(* Bit operations on naturals *)

RECURSIVE BitOr(_, _)
BitOr(x, y) ==
    IF x = 0 THEN y
    ELSE IF y = 0 THEN x
    ELSE (IF x % 2 = 1 \/ y % 2 = 1 THEN 1 ELSE 0) + 2 * BitOr(x \div 2, y \div 2)

RECURSIVE BitAnd(_, _)
BitAnd(x, y) ==
    IF x = 0 \/ y = 0 THEN 0
    ELSE (IF x % 2 = 1 /\ y % 2 = 1 THEN 1 ELSE 0) + 2 * BitAnd(x \div 2, y \div 2)

\* uint64(1) << s on a word: a shift by the word width or more gives 0
Shl1(s) == IF s >= 0 /\ s < WordBits THEN 2^s ELSE 0

-----------------------------------------------------------------------------
(* RLW codec *)

bmask == 2^(WordBits - 1)

kmask == (2^KBits - 1) * 2^LBits

lmask == 2^LBits - 1

\* bit<<63 | uint64(k)<<31 | uint64(l), k and l being uint32 arguments
newRlw(bit, k, l) ==
    BitOr(BitOr((IF bit THEN 1 ELSE 0) * bmask, (k % (MaxUint32 + 1)) * 2^LBits),
          l % LTypeMod)

rlw_b(r) == BitAnd(r, bmask) \div bmask # 0

rlw_k(r) == BitAnd(r, kmask) \div 2^LBits

rlw_l(r) == BitAnd(r, lmask)

\* (r & ^kmask) | uint64(k)<<31
setk(r, k) == BitOr(r - BitAnd(r, kmask), (k % (MaxUint32 + 1)) * 2^LBits)

\* (r & ^lmask) | uint64(l): an l wider than the field reaches into the k field
setl(r, l) == BitOr(r - BitAnd(r, lmask), l % LTypeMod)

\* setbit counting idx from the least significant bit
setbitFromLsb(word, idx) == BitOr(word, Shl1(idx))

\* *word |= 1 << (64 - idx - 1)
setbit(word, idx) == BitOr(word, Shl1(WordBits - idx - 1))

-----------------------------------------------------------------------------
(* Bitmap *)

New == [n |-> 0, w |-> <<>>, lastrlw |-> -1]

\* the number of bits allocated
size(b) ==
    LET bn == (b.n \div WordBits) * WordBits
    IN  IF b.n % WordBits # 0 THEN bn + WordBits ELSE bn

\* b.w[i] with a Go (0-based) index
At(w, i) == w[i + 1]

InRange(w, i) == i >= 0 /\ i < Len(w)

\* the inside branch without the merge: a filled literal always becomes an RLW
SetInsideNoMerge(b, pos) ==
    LET last    == Len(b.w) - 1
        lastrlw == At(b.w, b.lastrlw)
        idx     == pos % WordBits
        w1      == [b.w EXCEPT ![last + 1] = setbit(@, idx)]
    IN  IF At(w1, last) = allones
        THEN LET r  == setl(lastrlw, (rlw_l(lastrlw) - 1) % LTypeMod)
                 w2 == [w1 EXCEPT ![last + 1] = newRlw(TRUE, 1, 0)]
                 w3 == [w2 EXCEPT ![b.lastrlw + 1] = r]
             IN  [n |-> pos + 1, w |-> w3, lastrlw |-> last]
        ELSE [n |-> pos + 1, w |-> w1, lastrlw |-> b.lastrlw]

\* the inside branch with a conversion that stores the old RLW over the
\* first word of the bitmap
SetInsideStoresFirst(b, pos) ==
    LET last    == Len(b.w) - 1
        lastrlw == At(b.w, b.lastrlw)
        idx     == pos % WordBits
        w1      == [b.w EXCEPT ![last + 1] = setbit(@, idx)]
    IN  IF At(w1, last) = allones
        THEN IF rlw_b(lastrlw) /\ rlw_l(lastrlw) = 1 /\ rlw_k(lastrlw) < MaxUint32
             THEN LET r  == setl(setk(lastrlw, rlw_k(lastrlw) + 1), 0)
                      w2 == [w1 EXCEPT ![b.lastrlw + 1] = r]
                  IN  [n |-> pos + 1, w |-> SubSeq(w2, 1, last), lastrlw |-> b.lastrlw]
             ELSE LET r  == setl(lastrlw, (rlw_l(lastrlw) - 1) % LTypeMod)
                      w2 == [w1 EXCEPT ![last + 1] = newRlw(TRUE, 1, 0)]
                      w3 == [w2 EXCEPT ![1] = r]
                  IN  [n |-> pos + 1, w |-> w3, lastrlw |-> last]
        ELSE [n |-> pos + 1, w |-> w1, lastrlw |-> b.lastrlw]

\* the branch of Set for a position inside the last word
SetInside(b, pos) ==
    LET last    == Len(b.w) - 1
        lastrlw == At(b.w, b.lastrlw)
        idx     == pos % WordBits
        w1      == [b.w EXCEPT ![last + 1] = setbit(@, idx)]
    IN  IF At(w1, last) = allones
        THEN IF rlw_b(lastrlw) /\ rlw_l(lastrlw) = 1 /\ rlw_k(lastrlw) < MaxUint32
             THEN LET r  == setl(setk(lastrlw, rlw_k(lastrlw) + 1), 0)
                      w2 == [w1 EXCEPT ![b.lastrlw + 1] = r]
                  IN  [n |-> pos + 1, w |-> SubSeq(w2, 1, last), lastrlw |-> b.lastrlw]
             ELSE LET r  == setl(lastrlw, (rlw_l(lastrlw) - 1) % LTypeMod)
                      w2 == [w1 EXCEPT ![last + 1] = newRlw(TRUE, 1, 0)]
                      w3 == [w2 EXCEPT ![b.lastrlw + 1] = r]
                  IN  [n |-> pos + 1, w |-> w3, lastrlw |-> last]
        ELSE [n |-> pos + 1, w |-> w1, lastrlw |-> b.lastrlw]

\* the branch of Set for a position beyond the allocated bits
SetBeyond(b, pos) ==
    LET lastrlw == At(b.w, b.lastrlw)
        idx     == pos % WordBits
        k       == (pos - size(b)) \div WordBits
        literal == setbit(0, idx)
    IN  IF k = 0 /\ rlw_l(lastrlw) + 1 <= maxUint31
        THEN LET r == setl(lastrlw, rlw_l(lastrlw) + 1)
             IN  [n |-> pos + 1,
                  w |-> Append([b.w EXCEPT ![b.lastrlw + 1] = r], literal),
                  lastrlw |-> b.lastrlw]
        ELSE IF k > 0 /\ rlw_k(lastrlw) + k <= MaxUint32
        THEN LET r == setl(setk(lastrlw, rlw_k(lastrlw) + k), rlw_l(lastrlw) + 1)
             IN  [n |-> pos + 1,
                  w |-> Append([b.w EXCEPT ![b.lastrlw + 1] = r], literal),
                  lastrlw |-> b.lastrlw]
        ELSE LET w1 == Append(b.w, newRlw(FALSE, (k - MaxUint32 - 1) % (MaxUint32 + 1), 1))
                 w2 == [w1 EXCEPT ![b.lastrlw + 1] = lastrlw]
             IN  [n |-> pos + 1, w |-> Append(w2, literal), lastrlw |-> Len(w1) - 1]

\* OutOfOrder with the comparison off by one
OutOfOrderOffByOne(b, pos) == b.n >= pos

\* if b.n > pos { return ErrInvalidBitSet }
OutOfOrder(b, pos) == b.n > pos

\* the first Set of a bitmap creates its first RLW
EnsureRlw(b) ==
    IF b.lastrlw < 0
    THEN [n |-> b.n, w |-> Append(b.w, newRlw(FALSE, 0, 0)), lastrlw |-> 0]
    ELSE b

\* Set creating the first RLW before it looks at the position
SetInitFirst(b, pos) ==
    LET b1 == EnsureRlw(b)
    IN  IF OutOfOrder(b1, pos)
        THEN [b |-> b1, err |-> "ErrInvalidBitSet"]
        ELSE IF ~InRange(b1.w, b1.lastrlw)
             THEN [b |-> b1, err |-> "panic"]
             ELSE IF size(b1) > pos
                  THEN [b |-> SetInside(b1, pos), err |-> "nil"]
                  ELSE [b |-> SetBeyond(b1, pos), err |-> "nil"]

\* Set: the bitmap after the call and what the call returned; an index
\* outside the word list is a run-time panic
Set(b, pos) ==
    IF OutOfOrder(b, pos)
    THEN [b |-> b, err |-> "ErrInvalidBitSet"]
    ELSE LET b1 == EnsureRlw(b)
         IN  IF ~InRange(b1.w, b1.lastrlw)
             THEN [b |-> b1, err |-> "panic"]
             ELSE IF size(b1) > pos
                  THEN [b |-> SetInside(b1, pos), err |-> "nil"]
                  ELSE [b |-> SetBeyond(b1, pos), err |-> "nil"]

\* the inner loop of Get over the literals j, j+1, ... of the block at word i
RECURSIVE GetLiteral(_, _, _, _, _)
GetLiteral(b, pos, i, j, acc) ==
    IF ~(j <= rlw_l(At(b.w, i)))
    THEN [found |-> FALSE, acc |-> acc, res |-> "false"]
    ELSE IF pos < acc + WordBits
         THEN IF ~InRange(b.w, i + j)
              THEN [found |-> TRUE, acc |-> acc, res |-> "panic"]
              ELSE LET mask == Shl1((WordBits - 1) - (pos - acc))
                   IN  [found |-> TRUE, acc |-> acc,
                        res |-> IF BitAnd(At(b.w, i + j), mask) # 0 THEN "true" ELSE "false"]
         ELSE GetLiteral(b, pos, i, j + 1, acc + WordBits)

\* the loop of Get stepping over the RLW only, not over its literals
RECURSIVE GetScanNoSkip(_, _, _, _)
GetScanNoSkip(b, pos, i, acc) ==
    IF ~(i < Len(b.w))
    THEN "false"
    ELSE LET word == At(b.w, i)
             kb   == rlw_k(word) * WordBits
             l    == rlw_l(word)
             acc1 == acc + kb
         IN  IF pos < acc + kb
             THEN (IF rlw_b(word) THEN "true" ELSE "false")
             ELSE IF l > 0 /\ pos < acc1 + l * WordBits
                  THEN LET lit == GetLiteral(b, pos, i, 1, acc1)
                       IN  IF lit.found
                           THEN lit.res
                           ELSE GetScanNoSkip(b, pos, i + 1, lit.acc)
                  ELSE GetScanNoSkip(b, pos, i + 1, acc1 + l * WordBits)

\* the loop of Get from word i with acc bits consumed
RECURSIVE GetScan(_, _, _, _)
GetScan(b, pos, i, acc) ==
    IF ~(i < Len(b.w))
    THEN "false"
    ELSE LET word == At(b.w, i)
             kb   == rlw_k(word) * WordBits
             l    == rlw_l(word)
             acc1 == acc + kb
         IN  IF pos < acc + kb
             THEN (IF rlw_b(word) THEN "true" ELSE "false")
             ELSE IF l > 0 /\ pos < acc1 + l * WordBits
                  THEN LET lit == GetLiteral(b, pos, i, 1, acc1)
                       IN  IF lit.found
                           THEN lit.res
                           ELSE GetScan(b, pos, i + l + 1, lit.acc)
                  ELSE GetScan(b, pos, i + l + 1, acc1 + l * WordBits)

\* Get without the quick path for positions never written
GetNoQuickPath(b, pos) == GetScan(b, pos, 0, 0)

Get(b, pos) ==
    IF pos >= b.n THEN "false" ELSE GetScan(b, pos, 0, 0)

\* uint32(b.n)
Bits(b) == b.n % WireMod

Bytes(b) == (Len(b.w) * 64) \div 8

\* Reset that forgets to clear the index of the active RLW
ResetKeepsRlw(b) == [n |-> 0, w |-> <<>>, lastrlw |-> b.lastrlw]

Reset(b) == [n |-> 0, w |-> <<>>, lastrlw |-> -1]

-----------------------------------------------------------------------------
(* Serializer *)

ByteOrders == {"BigEndian", "LittleEndian"}

Base == 2^ByteBits

\* the bytes of num, most significant first, on cnt bytes
RECURSIVE BigEndianBytes(_, _)
BigEndianBytes(num, cnt) ==
    IF cnt = 0 THEN <<>>
    ELSE Append(BigEndianBytes(num \div Base, cnt - 1), num % Base)

RECURSIVE Reverse(_)
Reverse(s) == IF s = <<>> THEN <<>> ELSE Append(Reverse(Tail(s)), Head(s))

\* bo.PutUint32 / bo.PutUint64: cnt bytes of num in the byte order
PutUint(order, num, cnt) ==
    IF order = "BigEndian"
    THEN BigEndianBytes(num % Base^cnt, cnt)
    ELSE Reverse(BigEndianBytes(num % Base^cnt, cnt))

RECURSIVE BigEndianValue(_)
BigEndianValue(s) ==
    IF s = <<>> THEN 0
    ELSE BigEndianValue(SubSeq(s, 1, Len(s) - 1)) * Base + s[Len(s)]

\* bo.Uint32 / bo.Uint64 of a full buffer
UintOf(order, bytes) ==
    IF order = "BigEndian" THEN BigEndianValue(bytes) ELSE BigEndianValue(Reverse(bytes))

writeUint32(order, num) == PutUint(order, num, 4)

writeUint64(order, num) == PutUint(order, num, 8)

RECURSIVE WriteWords(_, _)
WriteWords(order, w) ==
    IF w = <<>> THEN <<>>
    ELSE writeUint64(order, Head(w)) \o WriteWords(order, Tail(w))

\* Write emitting the index of the active RLW before the words
WriteIndexBeforeWords(b, order) ==
    [bytes |-> writeUint32(order, Bits(b))
                 \o writeUint32(order, Len(b.w))
                 \o writeUint32(order, b.lastrlw)
                 \o WriteWords(order, b.w),
     n     |-> 4 * 3 + Len(b.w) * 8]

\* Write to a sink that accepts every write: the bytes the sink received and
\* the count Write returned
Write(b, order) ==
    [bytes |-> writeUint32(order, Bits(b))
                 \o writeUint32(order, Len(b.w))
                 \o WriteWords(order, b.w)
                 \o writeUint32(order, b.lastrlw),
     n     |-> 4 * 3 + Len(b.w) * 8]

\* io.ReadAtLeast(r, buf, cnt) and the conversion: the value read and the
\* rest of the stream, or an error on a short stream
readUint(order, stream, cnt) ==
    IF Len(stream) < cnt
    THEN [err |-> TRUE, val |-> 0, rest |-> <<>>]
    ELSE [err |-> FALSE,
          val |-> UintOf(order, SubSeq(stream, 1, cnt)),
          rest |-> SubSeq(stream, cnt + 1, Len(stream))]

\* the loop of FromReader over the words still to be read
RECURSIVE ReadWords(_, _, _, _)
ReadWords(order, stream, todo, w) ==
    IF todo = 0
    THEN [err |-> FALSE, w |-> w, rest |-> stream]
    ELSE LET r == readUint(order, stream, 8)
         IN  IF r.err
             THEN [err |-> TRUE, w |-> w, rest |-> stream]
             ELSE ReadWords(order, r.rest, todo - 1, Append(w, r.val))

NoBitmap == [n |-> -1, w |-> <<>>, lastrlw |-> -1]

FromReader(stream, order) ==
    LET bits == readUint(order, stream, 4)
    IN  IF bits.err
        THEN [b |-> NoBitmap, err |-> "bitmap: can't read uncompressed bit number"]
        ELSE LET words == readUint(order, bits.rest, 4)
             IN  IF words.err
                 THEN [b |-> NoBitmap, err |-> "bitmap: can't read compressed word number"]
                 ELSE LET w == ReadWords(order, words.rest, words.val, <<>>)
                      IN  IF w.err
                          THEN [b |-> NoBitmap, err |-> "bitmap: can't read word"]
                          ELSE LET lastrlw == readUint(order, w.rest, 4)
                               IN  IF lastrlw.err
                                   THEN [b |-> NoBitmap,
                                         err |-> "bitmap: can't read position of current RLW"]
                                   ELSE [b |-> [n |-> bits.val, w |-> w.w,
                                                lastrlw |-> lastrlw.val],
                                         err |-> "nil"]

FromBytes(bytes, order) == FromReader(bytes, order)

-----------------------------------------------------------------------------------------------------------------------------------------------------
(* State machine *)

VARIABLES
    b,        \* the bitmap built by the caller
    written,  \* the positions whose Set returned nil since New or Reset
    last,     \* the last call: its name, its argument and what it returned
    sink,     \* the buffer Write wrote to, the byte order and the count returned
    rd        \* what FromBytes returned for the bytes of the sink

vars == <<b, written, last, sink, rd>>

\* The caller: it appends the next bit (pos = n), or opens a chunk that is
\* not allocated yet, any number of chunks ahead, at one of OpenOffsets; it
\* also tries positions that are already behind (0, n - 1) or negative.
OpenOffsets == {0, WordBits - 1}

SetInputs ==
    {-1, 0, b.n - 1}
        \cup {p \in b.n .. MaxPos :
                 p = b.n \/ (p >= size(b) /\ p % WordBits \in OpenOffsets)}

\* positions handed to Get: the last written one, the first unwritten one and
\* the largest position
GetInputs == {b.n - 1, b.n, MaxInt64}

NoSink == [order |-> "none", bytes |-> <<>>, n |-> 0]

NoRead == [order |-> "none", b |-> NoBitmap, err |-> "nil"]

Init ==
    /\ b = New
    /\ written = {}
    /\ last = [op |-> "New", pos |-> 0, res |-> "nil"]
    /\ sink = NoSink
    /\ rd = NoRead

\* b.Set(pos); the bitmap is built before it is written out
DoSet(pos) ==
    LET r == Set(b, pos)
    IN  /\ sink = NoSink
        /\ b' = r.b
        /\ written' = IF r.err = "nil" THEN written \cup {pos} ELSE written
        /\ last' = [op |-> "Set", pos |-> pos, res |-> r.err]
        /\ UNCHANGED <<sink, rd>>

\* b.Get(pos)
DoGet(pos) ==
    /\ last' = [op |-> "Get", pos |-> pos, res |-> Get(b, pos)]
    /\ UNCHANGED <<b, written, sink, rd>>

\* b.Reset(); last.pos keeps the bit count that was discarded
DoReset ==
    /\ sink = NoSink
    /\ b' = Reset(b)
    /\ written' = {}
    /\ last' = [op |-> "Reset", pos |-> b.n, res |-> "nil"]
    /\ UNCHANGED <<sink, rd>>

\* b.Write(buf, order) on a new buffer
DoWrite(order) ==
    LET r == Write(b, order)
    IN  /\ sink = NoSink
        /\ sink' = [order |-> order, bytes |-> r.bytes, n |-> r.n]
        /\ last' = [op |-> "Write", pos |-> 0, res |-> "nil"]
        /\ UNCHANGED <<b, written, rd>>

\* FromBytes(buf.Bytes(), order)
DoRead(order) ==
    LET r == FromBytes(sink.bytes, order)
    IN  /\ sink # NoSink
        /\ rd' = [order |-> order, b |-> r.b, err |-> r.err]
        /\ last' = [op |-> "FromBytes", pos |-> 0, res |-> r.err]
        /\ UNCHANGED <<b, written, sink>>

Next ==
    \/ \E pos \in SetInputs : DoSet(pos)
    \/ \E pos \in GetInputs : DoGet(pos)
    \/ DoReset

Spec == Init /\ [][Next]_vars

NextIO ==
    \/ \E pos \in SetInputs : DoSet(pos)
    \/ DoReset
    \/ \E order \in ByteOrders : DoWrite(order)
    \/ \E order \in ByteOrders : DoRead(order)

SpecIO == Init /\ [][NextIO]_vars

-----------------------------------------------------------------------------
(* The scenario of TestBitmapSet and newBitmap *)

\* from .. to as a sequence
Range(from, to) == [i \in 1 .. (to - from + 1) |-> from + i - 1]

\* the positions the scenario sets, in order: one bit in chunk ScenarioRun,
\* one in the next chunk, a whole chunk, a chunk without its first
\* ScenarioRun bits, a whole chunk (325, 390, 448..511, 517..575, 576..639)
ScenarioScript ==
    <<ScenarioRun * WordBits + ScenarioRun,
      (ScenarioRun + 1) * WordBits + (ScenarioRun + 1)>>
        \o Range((ScenarioRun + 2) * WordBits, (ScenarioRun + 3) * WordBits - 1)
        \o Range((ScenarioRun + 3) * WordBits + ScenarioRun,
                 (ScenarioRun + 4) * WordBits - 1)
        \o Range((ScenarioRun + 4) * WordBits, (ScenarioRun + 5) * WordBits - 1)

ScenarioBits == (ScenarioRun + 5) * WordBits

\* the next Set of the scenario
ScenarioSet ==
    /\ Cardinality(written) < Len(ScenarioScript)
    /\ DoSet(ScenarioScript[Cardinality(written) + 1])

\* the Set(0) the test interleaves once bits are written
ScenarioSetZero ==
    /\ written # {}
    /\ DoSet(0)

NextScenario ==
    \/ ScenarioSet
    \/ ScenarioSetZero
    \/ \E pos \in 0 .. ScenarioBits : DoGet(pos)

SpecScenario == Init /\ [][NextScenario]_vars

-----------------------------------------------------------------------------
(* Get on a bitmap that was loaded, not built *)

\* literal words of the loaded bitmaps: last bit only (which reads as an RLW
\* with one literal) and all but the last bit (which reads as an RLW with a
\* long run and literals)
LiteralInputs == {1, allones - 1}

\* one block: an RLW and the literals it counts
BlockInputs ==
    UNION {{<<newRlw(bit, k, l)>> \o lits : lits \in [1 .. l -> LiteralInputs]} :
             bit \in BOOLEAN, k \in 0 .. GetMaxRun, l \in 0 .. GetMaxLit}

\* the words FromReader may return: one block or two
WordInputs == BlockInputs \cup {x \o y : x \in BlockInputs, y \in BlockInputs}

\* the number of chunks the blocks from word i on describe
RECURSIVE Chunks(_, _)
Chunks(w, i) ==
    IF ~(i < Len(w)) THEN 0
    ELSE rlw_k(At(w, i)) + rlw_l(At(w, i)) + Chunks(w, i + 1 + rlw_l(At(w, i)))

\* a bitmap as FromReader returns it: well-formed words, the active RLW the
\* last one, and a bit count the blocks cover, ending in the last chunk
InitGet ==
    /\ \E w \in WordInputs :
         \E n \in {Chunks(w, 0) * WordBits - 1, Chunks(w, 0) * WordBits} :
            /\ n >= 0
            /\ b = [n |-> n, w |-> w,
                    lastrlw |-> IF w \in BlockInputs THEN 0
                                ELSE 1 + rlw_l(At(w, 0))]
    /\ written = {}
    /\ last = [op |-> "FromBytes", pos |-> 0, res |-> "nil"]
    /\ sink = NoSink
    /\ rd = NoRead

NextGet == \E pos \in GetInputs : DoGet(pos)

SpecGet == InitGet /\ [][NextGet]_vars

-----------------------------------------------------------------------------
(* Properties *)

Answer(bit) == IF bit THEN "true" ELSE "false"

\* C1: after Set calls on a new bitmap, Get(p) for p below the bit count is
\* true exactly for the positions a Set returned nil for.
C1_WriteThenRead ==
    \A p \in 0 .. b.n - 1 : Get(b, p) = Answer(p \in written)

\* C2: a bitmap built by Set calls, written and read back in the same byte
\* order, comes back equal field for field.
C2_RoundTrip ==
    (written # {} /\ rd.order # "none" /\ rd.order = sink.order)
        => (rd.err = "nil" /\ rd.b = b)

C4_FailedSetFrame ==
    [][(last'.op = "Set" /\ last'.res = "ErrInvalidBitSet") => b' = b]_vars

C4_Witness ==
    /\ last.op = "Set"
    /\ last.res = "ErrInvalidBitSet"
    /\ last.pos = b.n - 1
    /\ Len(b.w) > 1

\* C5: Get of a position at or above the bit count returns false, without a
\* panic, in every state; the largest position included.
C5_UndefinedReadAsZero ==
    \A p \in (b.n .. MaxPos + 2 * WordBits) \cup {MaxInt64} : Get(b, p) = "false"

C5_Witness ==
    /\ last.op = "Get"
    /\ last.pos = MaxInt64
    /\ last.res = "false"
    /\ b.n > WordBits

\* the index of the last RLW a walk from word i reaches when it steps by
\* 1 + literal count, or -1 when a step passes the end of the words
RECURSIVE WalkEnd(_, _)
WalkEnd(w, i) ==
    LET next == i + 1 + rlw_l(At(w, i))
    IN  IF next = Len(w) THEN i
        ELSE IF next > Len(w) THEN -1
        ELSE WalkEnd(w, next)

\* C6: the walk over the blocks of a bitmap that has words stays inside the
\* words and ends on the active RLW, whose block ends at the last word.
C6_BlockStructure ==
    Len(b.w) > 0 => WalkEnd(b.w, 0) = b.lastrlw

\* the gap, in chunks, of a Set beyond the allocated bits
GapOf(bm, pos) == (pos - size(bm)) \div WordBits

\* a Set beyond the allocated bits that would push a field of the active RLW
\* past its maximum
WouldOverflow(bm, pos) ==
    /\ bm.lastrlw >= 0
    /\ pos >= size(bm)
    /\ \/ rlw_l(At(bm.w, bm.lastrlw)) + 1 > maxUint31
       \/ rlw_k(At(bm.w, bm.lastrlw)) + GapOf(bm, pos) > MaxUint32

\* C7: a Set that would push run count or literal count of the active RLW
\* past its maximum leaves that RLW as it is and starts a new block: a new
\* RLW with one literal, appended with the literal after it.
C7_FieldBounds ==
    [][(last'.op = "Set" /\ last'.res = "nil" /\ WouldOverflow(b, last'.pos))
          => /\ Len(b'.w) = Len(b.w) + 2
             /\ SubSeq(b'.w, 1, Len(b.w)) = b.w
             /\ b'.lastrlw = Len(b.w)
             /\ rlw_l(At(b'.w, Len(b.w))) = 1]_vars

\* C8: after a Set that returned nil the bit count is pos + 1 and Bits()
\* reports that number.
C8_BitCount ==
    (last.op = "Set" /\ last.res = "nil")
        => (b.n = last.pos + 1 /\ Bits(b) = last.pos + 1)

\* the value of a field of the stream: bytes from..from+cnt-1 in the order
FieldAt(order, bytes, from, cnt) ==
    LET digit(i) == IF order = "BigEndian"
                    THEN bytes[from + i]
                    ELSE bytes[from + cnt - 1 - i]
        sum[i \in 0 .. cnt] ==
            IF i = 0 THEN 0 ELSE sum[i - 1] * Base + digit(i - 1)
    IN  sum[cnt]

\* C9: Write on a bitmap of W words emits 12 + 8*W bytes: bit count, word
\* count, the words in order, active RLW index; returns 12 + 8*W; and leaves
\* the bitmap as it was.
C9_WriteLayout ==
    [][last'.op = "Write"
          => LET W == Len(b.w)
                 o == sink'.order
                 s == sink'.bytes
             IN  /\ b' = b
                 /\ Len(s) = 12 + 8 * W
                 /\ sink'.n = 12 + 8 * W
                 /\ FieldAt(o, s, 1, 4) = b.n % WireMod
                 /\ FieldAt(o, s, 5, 4) = W
                 /\ \A i \in 1 .. W : FieldAt(o, s, 9 + 8 * (i - 1), 8) = b.w[i]
                 /\ FieldAt(o, s, 9 + 8 * W, 4) = b.lastrlw % WireMod]_vars

C9_Witness ==
    /\ last.op = "Write"
    /\ Len(b.w) >= 3
    /\ sink.n = 12 + 8 * Len(b.w)

\* C10: Reset leaves the empty bitmap of New, whatever the state before, and
\* a Set that follows behaves as on a new bitmap: it accepts every position
\* from 0 on.
C10_Reset ==
    /\ [](last.op = "Reset" => b = New)
    /\ [][(last.op = "Reset" /\ last'.op = "Set" /\ last'.pos >= 0)
             => (last'.res = "nil" /\ b' = Set(New, last'.pos).b)]_vars

C10_Witness ==
    /\ last.op = "Reset"
    /\ last.pos > WordBits
    /\ b.n = 0

\* the bitmap newBitmap() builds by hand, with the widths of the model
newBitmap ==
    [n |-> ScenarioBits,
     w |-> <<newRlw(FALSE, ScenarioRun, 2),
             Shl1(WordBits - 1 - ScenarioRun),
             Shl1(WordBits - 1 - (ScenarioRun + 1)),
             newRlw(TRUE, 1, 1),
             allones \div 2^ScenarioRun,
             newRlw(TRUE, 1, 0)>>,
     lastrlw |-> 5]

ScenarioDone == Cardinality(written) = Len(ScenarioScript)

\* C11: every Set of the scenario succeeds, the interleaved Set(0) is
\* rejected, and at the end the bitmap is the one of newBitmap(): its bit
\* count, its six words and active RLW index 5; Get is then true exactly for
\* the positions set.
C11_Scenario ==
    /\ last.op = "Set" => (last.res = "nil" \/ (last.pos = 0 /\ last.res = "ErrInvalidBitSet"))
    /\ ScenarioDone
          => /\ b = newBitmap
             /\ \A p \in 0 .. ScenarioBits - 1 :
                    Get(b, p) = Answer(\E i \in 1 .. Len(ScenarioScript) : ScenarioScript[i] = p)

C11_Witness ==
    /\ ScenarioDone
    /\ last.op = "Get"
    /\ last.pos = (ScenarioRun + 3) * WordBits + ScenarioRun
    /\ last.res = "true"

\* the bits of a word, most significant first
WordBitsOf(x) == [j \in 1 .. WordBits |-> (x \div 2^(WordBits - j)) % 2 = 1]

\* the literals j .. l of the block at word i, expanded
RECURSIVE ExpandLiterals(_, _, _)
ExpandLiterals(w, i, j) ==
    IF j > rlw_l(At(w, i)) THEN <<>>
    ELSE WordBitsOf(At(w, i + j)) \o ExpandLiterals(w, i, j + 1)

\* the bitmap the blocks from word i on describe, bit by bit
RECURSIVE Decompress(_, _)
Decompress(w, i) ==
    IF ~(i < Len(w)) THEN <<>>
    ELSE [j \in 1 .. rlw_k(At(w, i)) * WordBits |-> rlw_b(At(w, i))]
            \o ExpandLiterals(w, i, 1)
            \o Decompress(w, i + 1 + rlw_l(At(w, i)))

\* C12: on well-formed words that cover the bit count, Get(p) for p below
\* the bit count is bit p of the decompressed bitmap, and never a panic.
C12_GetDecodes ==
    LET bits == Decompress(b.w, 0)
    IN  \A p \in 0 .. b.n - 1 : Get(b, p) = Answer(bits[p + 1])

C12_Witness ==
    /\ last.op = "Get"
    /\ last.res = "true"
    /\ last.pos = b.n - 1
    /\ Len(b.w) >= 5
    /\ b.lastrlw >= 2
    /\ At(b.w, 1) = allones - 1

\* a step that is a successful Set
SetSucceeds == last'.op = "Set" /\ last'.res = "nil" /\ b' # b

\* C13: a successful Set leaves Get(p) as it was for every p below the bit
\* count before the call.
C13_AppendOnly ==
    [][SetSucceeds => \A p \in 0 .. b.n - 1 : Get(b', p) = Get(b, p)]_vars

\* the active RLW and the last word before the step
ActiveRlw == At(b.w, b.lastrlw)

LastWord == At(b.w, Len(b.w) - 1)

\* the step is a successful Set inside the capacity that fills the trailing
\* literal to all ones
FillsLiteral ==
    /\ SetSucceeds
    /\ b.w # <<>>
    /\ last'.pos < size(b)
    /\ BitOr(LastWord, 2^(WordBits - 1 - (last'.pos % WordBits))) = allones

\* the condition under which the filled literal merges into the active RLW
MergeCondition ==
    rlw_b(ActiveRlw) /\ rlw_l(ActiveRlw) = 1 /\ rlw_k(ActiveRlw) < MaxUint32

\* C14: a fill under the merge condition adds one to the run count of the
\* active RLW, clears its literal count, drops the literal and leaves the
\* index of the active RLW alone.
C14_MergeOnFill ==
    [][FillsLiteral /\ MergeCondition
          => /\ Len(b'.w) = Len(b.w) - 1
             /\ b'.lastrlw = b.lastrlw
             /\ At(b'.w, b.lastrlw) = newRlw(TRUE, rlw_k(ActiveRlw) + 1, 0)
             /\ \A i \in 0 .. Len(b'.w) - 1 :
                    i # b.lastrlw => At(b'.w, i) = At(b.w, i)]_vars

C14_Witness ==
    /\ last.op = "Set"
    /\ last.res = "nil"
    /\ last.pos % WordBits = WordBits - 1
    /\ b.lastrlw = Len(b.w) - 1
    /\ b.lastrlw > 0
    /\ rlw_b(ActiveRlw)
    /\ rlw_k(ActiveRlw) = 2
    /\ rlw_l(ActiveRlw) = 0
    /\ {last.pos - i : i \in 0 .. 2 * WordBits - 1} \subseteq written

\* C15: a fill outside the merge condition takes one from the literal count
\* of the old RLW, keeping its bit and run count, writes RLW(1, 1, 0) over
\* the literal, makes that word the active RLW and keeps the length.
C15_ConvertOnFill ==
    [][FillsLiteral /\ ~MergeCondition
          => /\ Len(b'.w) = Len(b.w)
             /\ b'.lastrlw = Len(b.w) - 1
             /\ At(b'.w, Len(b.w) - 1) = newRlw(TRUE, 1, 0)
             /\ rlw_b(At(b'.w, b.lastrlw)) = rlw_b(ActiveRlw)
             /\ rlw_k(At(b'.w, b.lastrlw)) = rlw_k(ActiveRlw)
             /\ rlw_l(At(b'.w, b.lastrlw)) = rlw_l(ActiveRlw) - 1
             /\ \A i \in 0 .. Len(b.w) - 2 :
                    i # b.lastrlw => At(b'.w, i) = At(b.w, i)]_vars

\* the index and the run count of the active RLW a Set works on: the RLW
\* the call itself allocates when the bitmap has none
ActiveIndex == IF b.w = <<>> THEN 0 ELSE b.lastrlw

RunBefore == IF b.w = <<>> THEN 0 ELSE rlw_k(ActiveRlw)

\* the step is a successful Set beyond the capacity whose gap does not fit
\* the run count of the active RLW
SplitsRun ==
    /\ SetSucceeds
    /\ GapOf(b, last'.pos) > 0
    /\ RunBefore + GapOf(b, last'.pos) > MaxUint32

\* C16: a gap that overflows the run count leaves the old RLW as it was and
\* appends RLW(0, remainder, 1), active, and the literal, so that the two
\* run counts add up to the run count before the call plus the gap.
C16_RunOverflowSplit ==
    [][SplitsRun
          => /\ b.w # <<>> => At(b'.w, ActiveIndex) = ActiveRlw
             /\ rlw_k(At(b'.w, ActiveIndex)) = RunBefore
             /\ b'.lastrlw = Len(b'.w) - 2
             /\ b'.lastrlw > ActiveIndex
             /\ ~rlw_b(At(b'.w, b'.lastrlw))
             /\ rlw_l(At(b'.w, b'.lastrlw)) = 1
             /\ rlw_k(At(b'.w, ActiveIndex)) + rlw_k(At(b'.w, b'.lastrlw))
                    = RunBefore + GapOf(b, last'.pos)
             /\ At(b'.w, Len(b'.w) - 1) = 2^(WordBits - 1 - (last'.pos % WordBits))]_vars

\* C17: a successful Set changes no word other than the one at the index of
\* the active RLW and the last one, beyond appending or removing words at
\* the end; the words below the active RLW stay, and its index never goes
\* down.
C17_FrozenPrefix ==
    [][SetSucceeds
          => /\ \A i \in 0 .. Len(b.w) - 2 :
                    i # b.lastrlw => (i < Len(b'.w) /\ At(b'.w, i) = At(b.w, i))
             /\ Len(b'.w) >= Len(b.w) - 1
             /\ b'.lastrlw >= b.lastrlw]_vars

C17_Witness ==
    /\ last.op = "Set"
    /\ last.res = "nil"
    /\ b.lastrlw >= 3
    /\ b.lastrlw < Len(b.w) - 1
    /\ rlw_l(At(b.w, 0)) >= 2

\* C18: the chunks the blocks describe, run counts plus literal counts, are
\* the chunks of the capacity, the bit count rounded up to whole chunks.
C18_CapacityAccounting ==
    /\ Chunks(b.w, 0) * WordBits = size(b)
    /\ Chunks(b.w, 0) = (b.n + WordBits - 1) \div WordBits

\* word i is a literal of the block whose RLW is at word r <= i
RECURSIVE IsLiteral(_, _, _)
IsLiteral(w, r, i) ==
    /\ r < Len(w)
    /\ r <= i
    /\ IF i <= r + rlw_l(At(w, r)) THEN i # r
       ELSE IsLiteral(w, r + 1 + rlw_l(At(w, r)), i)

\* C19: when the bit count ends inside a chunk, the last word is the last
\* literal of the block of the active RLW; and no literal is all zeros or all
\* ones.
C19_TrailingLiteral ==
    /\ b.n % WordBits # 0
          => /\ rlw_l(ActiveRlw) >= 1
             /\ Len(b.w) - 1 = b.lastrlw + rlw_l(ActiveRlw)
    /\ \A i \in 0 .. Len(b.w) - 1 :
          IsLiteral(b.w, 0, i) => At(b.w, i) # 0 /\ At(b.w, i) # allones

\* C20: a bitmap without a successful Set, written and read back, is the
\* empty bitmap again, and Set on it does what it does on a new bitmap.
C20_EmptyRoundTrip ==
    (b = New /\ rd # NoRead)
        => /\ rd.err = "nil"
           /\ rd.b = New
           /\ \A pos \in 0 .. MaxPos : Set(rd.b, pos) = Set(New, pos)

====
